---- MODULE Spec2Model ----
(***************************************************************************)
(* Model of python-service/app.py, class PlaywrightTestExecutor: the       *)
(* execution-and-interpretation pipeline run_script and the helpers it     *)
(* calls.                                                                  *)
(*                                                                         *)
(* Representation of Python values:                                        *)
(*   - a text is a record [isStr, toks]: toks is the sequence of the       *)
(*     words of the string; a value that is not a str has isStr = FALSE;   *)
(*     "kw in text.lower()" is Contains(text, kw);                         *)
(*   - a dict is a record or, where the set of keys matters (the           *)
(*     response), a function whose DOMAIN is the set of keys;              *)
(*   - a call that may raise returns [raised, exc, value, calls].          *)
(***************************************************************************)
EXTENDS Naturals, Sequences, FiniteSets, TLC

\* ---------------------------------------------------------------- bounds
MaxFailing == 6
MaxItems == 6
MaxShots == 2

\* ------------------------------------------------------ program constants
MaxBugs == 5
MaxRecs == 5
MaxStderrLines == 6

\* ------------------------------------------------------------------ texts
Str(toks) == [isStr |-> TRUE, toks |-> toks]

NonStr == [isStr |-> FALSE, toks |-> <<>>]

Min(a, b) == IF a <= b THEN a ELSE b

Take(s, n) == SubSeq(s, 1, Min(n, Len(s)))

\* str.lower() on one word
LowerTok(t) ==
  CASE t = "Timeout" -> "timeout"
    [] t = "Login" -> "login"
    [] t = "Sign Up" -> "sign up"
    [] t = "TIMEOUT" -> "timeout"
    [] t = "Not Found" -> "not found"
    [] t = "Checkout" -> "checkout"
    [] t = "Go" -> "go"
    [] t = "Help" -> "help"
    [] t = "Welcome" -> "welcome"
    [] t = "High" -> "high"
    [] t = "Low" -> "low"
    [] t = "LOGIN" -> "login"
    [] OTHER -> t

\* kw in text.lower()
Contains(text, kw) == \E i \in DOMAIN text.toks : LowerTok(text.toks[i]) = kw

ContainsAny(text, kws) == \E kw \in kws : Contains(text, kw)

RECURSIVE Dedup(_)
\* list(dict.fromkeys(xs)): first occurrences, in order
Dedup(xs) ==
  IF xs = <<>> THEN <<>>
  ELSE LET front == Dedup(SubSeq(xs, 1, Len(xs) - 1))
           last == xs[Len(xs)]
       IN IF \E i \in DOMAIN front : front[i] = last THEN front
          ELSE Append(front, last)

\* ------------------------------------------------- outcomes of a call
Ok(v, n) == [raised |-> FALSE, exc |-> Str(<<>>), value |-> v, calls |-> n]

Raise(e, n) == [raised |-> TRUE, exc |-> Str(<<e>>), value |-> <<>>, calls |-> n]

\* -------------------------------------------------- _categorize_bug_severity
critical_keywords == {"timeout", "crash", "cannot load", "failed to load", "navigation", "net::err"}

high_keywords == {"login", "checkout", "payment", "submit", "form", "authentication", "authorization"}

medium_keywords == {"not found", "not visible", "missing", "locator"}

valid_severities == {"critical", "high", "medium", "low"}

CategorizeBugSeverity_MediumFirst(error, test_name) ==
  IF ~error.isStr \/ ~test_name.isStr THEN Raise("AttributeError", 0)
  ELSE IF ContainsAny(error, medium_keywords) THEN Ok("medium", 0)
  ELSE IF ContainsAny(error, critical_keywords) THEN Ok("critical", 0)
  ELSE IF ContainsAny(test_name, high_keywords) THEN Ok("high", 0)
  ELSE Ok("high", 0)

\* error.lower() raises AttributeError when error is not a str
CategorizeBugSeverity(error, test_name) ==
  IF ~error.isStr \/ ~test_name.isStr THEN Raise("AttributeError", 0)
  ELSE IF ContainsAny(error, critical_keywords) THEN Ok("critical", 0)
  ELSE IF ContainsAny(test_name, high_keywords) THEN Ok("high", 0)
  ELSE IF ContainsAny(error, medium_keywords) THEN Ok("medium", 0)
  ELSE Ok("high", 0)

\* ------------------------------------------------------------ script text
\* A script is [isStr, lines]; a line is [kind, fn, arg, name] with kind
\*   "fence"  : the line starts with ``` in column 0
\*   "ifence" : whitespace, then ```
\*   "blank"  : whitespace only
\*   "code"   : a statement fn('arg') or getByRole('arg', { name: 'name' })
Line(kind, fn, arg, name) == [kind |-> kind, fn |-> fn, arg |-> arg, name |-> name]

Code(fn, arg) == Line("code", fn, arg, "")

MkScript(lines) == [isStr |-> TRUE, lines |-> lines]

NonTextScript == [isStr |-> FALSE, lines |-> <<>>]

IsFenceLine(l) == l.kind \in {"fence", "ifence"}

RECURSIVE LStrip(_)
LStrip(ls) == IF ls # <<>> /\ Head(ls).kind = "blank" THEN LStrip(Tail(ls)) ELSE ls

RECURSIVE RStrip(_)
RStrip(ls) ==
  IF ls # <<>> /\ ls[Len(ls)].kind = "blank" THEN RStrip(SubSeq(ls, 1, Len(ls) - 1)) ELSE ls

\* str.strip(): blank lines at both ends go, and so does the whitespace in
\* front of the first remaining line
Strip(ls) ==
  LET core == RStrip(LStrip(ls))
  IN IF core # <<>> /\ core[1].kind = "ifence"
     THEN <<[core[1] EXCEPT !.kind = "fence"]>> \o Tail(core)
     ELSE core

CleanScript(script) ==
  IF ~script.isStr THEN Raise("AttributeError", 0)
  ELSE IF script.lines # <<>> /\ script.lines[1].kind = "fence"
       THEN Ok(MkScript(SelectSeq(script.lines, LAMBDA l : ~IsFenceLine(l))), 0)
       ELSE Ok(MkScript(Strip(script.lines)), 0)

MaxTestNames == 10

selector_patterns == <<"getByRole", "getByText", "getByLabel", "getByPlaceholder", "getByTitle", "locator">>

CodeLines(script, fn) == SelectSeq(script.lines, LAMBDA l : l.kind = "code" /\ l.fn = fn)

RECURSIVE MapArg(_)
MapArg(ls) == IF ls = <<>> THEN <<>> ELSE <<Head(ls).arg>> \o MapArg(Tail(ls))

RECURSIVE ElementTextsOf(_)
\* getByRole contributes its name when it has one; text, label, placeholder
\* and title contribute their argument; locator contributes nothing
ElementTextsOf(ls) ==
  IF ls = <<>> THEN <<>>
  ELSE LET l == Head(ls)
           t == IF l.fn = "getByRole" THEN (IF l.name # "" THEN <<l.name>> ELSE <<>>)
                ELSE IF l.fn = "locator" THEN <<>>
                ELSE <<l.arg>>
       IN t \o ElementTextsOf(Tail(ls))

RECURSIVE MatchesInPatternOrder(_, _)
MatchesInPatternOrder(script, pats) ==
  IF pats = <<>> THEN <<>>
  ELSE CodeLines(script, Head(pats)) \o MatchesInPatternOrder(script, Tail(pats))

ParseTestScript(script) ==
  LET matches == MatchesInPatternOrder(script, selector_patterns)
  IN [test_names |-> Take(MapArg(CodeLines(script, "test")), MaxTestNames),
      selectors |-> MapArg(matches),
      element_texts |-> ElementTextsOf(matches)]

\* -------------------------------------------------------------- page_info
\* None, a dict, or a truthy value that is no dict (a JSON string, a list)
NoPageInfo == [kind |-> "none", title |-> Str(<<>>), headings |-> <<>>, buttons |-> <<>>]

MalformedPageInfo == [kind |-> "malformed", title |-> Str(<<>>), headings |-> <<>>, buttons |-> <<>>]

PageDict(title, headings, buttons) ==
  [kind |-> "dict", title |-> Str(title), headings |-> headings, buttons |-> buttons]

\* ------------------------------------------------ the runner's JSON report
ErrDict(message) == [isDict |-> TRUE, message |-> message]

TestResult(status, error) == [status |-> status, error |-> error]

TestEntry(title, results) == [title |-> title, results |-> results]

SpecEntry(tests) == [tests |-> tests]

Suite(specs, children) == [specs |-> specs, suites |-> children]

ReportTree(suites) == [kind |-> "dict", suites |-> suites]

NoResult == [kind |-> "none", suites |-> <<>>]

FalsyJson == [kind |-> "falsy", suites |-> <<>>]

NonDictJson == [kind |-> "nondict", suites |-> <<>>]

\* stdout is a sequence of chunks: log noise, a complete JSON value, or a
\* report cut short
Chunk(kind, value) == [kind |-> kind, value |-> value]

NoiseChunk == Chunk("noise", NoResult)

TruncatedChunk == Chunk("truncated", NoResult)

JsonChunk(v) == Chunk("json", v)

StartsReport(c) == c.kind = "truncated" \/ (c.kind = "json" /\ c.value.kind = "dict")

FirstReportStart(stdout) ==
  IF \E i \in DOMAIN stdout : StartsReport(stdout[i])
  THEN CHOOSE i \in DOMAIN stdout :
         StartsReport(stdout[i]) /\ \A j \in 1..(i - 1) : ~StartsReport(stdout[j])
  ELSE 0

ExtractJson(stdout) ==
  IF stdout = <<>> THEN NoResult
  ELSE IF Len(stdout) = 1 /\ stdout[1].kind = "json" THEN stdout[1].value
  ELSE LET start == FirstReportStart(stdout)
       IN IF start = 0 THEN NoResult
          ELSE IF stdout[start].kind = "json" THEN stdout[start].value
          ELSE NoResult

\* bool(result)
Truthy(result) == result.kind \in {"dict", "nondict"}

RECURSIVE FlatMap(_, _)
FlatMap(F(_), xs) == IF xs = <<>> THEN <<>> ELSE F(Head(xs)) \o FlatMap(F, Tail(xs))

\* the four nested loops of run_script over suites, specs, tests, results
ResultRows(result) ==
  LET RowsOfTest(t) == [i \in DOMAIN t.results |->
                          [title |-> t.title, status |-> t.results[i].status,
                           error |-> t.results[i].error]]
      RowsOfSpec(sp) == FlatMap(RowsOfTest, sp.tests)
      RowsOfSuite(su) == FlatMap(RowsOfSpec, su.specs)
  IN FlatMap(RowsOfSuite, result.suites)

failing_statuses == {"failed", "timedOut"}

\* msg = error_obj.get("message", ...) if it is a dict, else str(error_obj)
FailureOf(row) ==
  [title |-> row.title,
   error |-> IF row.error.isDict THEN row.error.message
             ELSE Str(row.error.message.toks)]

FailuresOf(rows) ==
  LET bad == SelectSeq(rows, LAMBDA r : r.status \in failing_statuses)
  IN [i \in DOMAIN bad |-> FailureOf(bad[i])]

\* ------------------------------------------------------------------- logs
LogLine(tag, arg) == [tag |-> tag, arg |-> arg]

RowLogs(rows) == [i \in DOMAIN rows |-> LogLine(rows[i].status, rows[i].title.toks)]

\* ------------------------------------------- the external generative call
\* One use of the model: GenerativeModel(...) may raise, generate_content may
\* raise, and response.text, fences stripped, is either no JSON ("nonjson"),
\* a JSON array ("list": items), one JSON object ("object": items has one
\* dict) or another JSON value ("scalar": items has one item that is no dict).
\* An item is [isDict, f]: f is the dict, a function from its keys to texts.
Reply(kind, items) == [kind |-> kind, items |-> items]

Item(f) == [isDict |-> TRUE, f |-> f]

NonDictItem == [isDict |-> FALSE, f |-> [none |-> NonStr]]

Has(item, key) == key \in DOMAIN item.f

\* item.get(key, default)
Get(item, key, default) == IF Has(item, key) THEN item.f[key] ELSE default

LowerText(text) == Str([i \in DOMAIN text.toks |-> LowerTok(text.toks[i])])

\* needle.lower() in text, for a one-word needle; "" is in every string
IsSub(needle, text) == needle = "" \/ Contains(text, LowerTok(needle))

\* --------------------------------------------------------- _create_simple_bugs
IsQuoted(tok) == tok \in {"'Sign Up'", "'Login'"}

Unquote(tok) == CASE tok = "'Sign Up'" -> "Sign Up" [] tok = "'Login'" -> "Login" [] OTHER -> tok

\* re.search(r"'([^']+)'", test_name)
ElementName(test_name) ==
  IF \E i \in DOMAIN test_name.toks : IsQuoted(test_name.toks[i])
  THEN Unquote(test_name.toks[CHOOSE i \in DOMAIN test_name.toks :
                  IsQuoted(test_name.toks[i])
                  /\ \A j \in 1..(i - 1) : ~IsQuoted(test_name.toks[j])])
  ELSE "a page element"

Bug(title, description, severity) ==
  [title |-> title, description |-> description, severity |-> severity]

SimpleBug(failure) ==
  LET test_name == failure.title
      error == failure.error
      severity == CategorizeBugSeverity(error, test_name).value
      element_name == ElementName(test_name)
  IN IF Contains(error, "timeout")
     THEN Bug(Str(test_name.toks \o <<"is taking too long to respond">>),
              Str(<<"took longer than expected">>), severity)
     ELSE IF Contains(error, "not found") \/ Contains(error, "locator")
     THEN Bug(Str(<<"Can't find", element_name>>),
              Str(<<"couldn't find", element_name>>), severity)
     ELSE Bug(Str(<<"Issue with">> \o test_name.toks),
              Str(<<"failed. Error:">> \o error.toks), severity)

CreateSimpleBugs_NoCap(failures, test_url, page_info) ==
  IF page_info.kind = "malformed" THEN Raise("AttributeError", 0)
  ELSE IF \E i \in DOMAIN failures : CategorizeBugSeverity(failures[i].error, failures[i].title).raised
  THEN Raise("AttributeError", 0)
  ELSE Ok([i \in DOMAIN failures |-> SimpleBug(failures[i])], 0)

CreateSimpleBugs(failures, test_url, page_info) ==
  LET firstFive == Take(failures, MaxBugs)
  IN IF page_info.kind = "malformed" THEN Raise("AttributeError", 0)
     ELSE IF \E i \in DOMAIN firstFive : CategorizeBugSeverity(firstFive[i].error, firstFive[i].title).raised
     THEN Raise("AttributeError", 0)
     ELSE Ok([i \in DOMAIN firstFive |-> SimpleBug(firstFive[i])], 0)

\* a variant that repeats a call once
CallsMade_Retried(beforeCall) == IF beforeCall THEN 0 ELSE 2

\* lines 371 and 621: model.generate_content is called once, unless a
\* statement before it raised; no handler calls it again
CallsMade(beforeCall) == IF beforeCall THEN 0 ELSE 1

\* ------------------------------------------------ _generate_user_friendly_bugs
\* validation of the bug at index i (0-based in the source)
ItemRaises(item, failure) ==
  \/ ~item.isDict
  \/ (Has(item, "severity") /\ ~item.f["severity"].isStr)

ValidatedSeverity(item, failure) ==
  LET given == LowerText(Get(item, "severity", Str(<<"high">>)))
  IN IF Len(given.toks) = 1 /\ given.toks[1] \in valid_severities
     THEN given.toks[1]
     ELSE CategorizeBugSeverity(failure.error, failure.title).value

ValidatedBug(item, failure) ==
  Bug(Get(item, "title", failure.title),
      Get(item, "description", Str(<<"A test failed">>)),
      ValidatedSeverity(item, failure))

\* for i, bug in enumerate(bugs[:5]): if i >= len(failures): break
BugLoopLength(items, failures) == Min(Len(Take(items, MaxBugs)), Len(failures))

\* lines 280-430: the try block of _generate_user_friendly_bugs
AskGeminiForBugs(failures, test_url, page_info, script_analysis, reply) ==
  LET firstFive == Take(failures, MaxBugs)
      beforeCall == \/ reply.kind = "client_raises"
                    \/ page_info.kind = "malformed"
                    \/ \E i \in DOMAIN firstFive : ~firstFive[i].error.isStr
      called == CallsMade(beforeCall)
      n == BugLoopLength(reply.items, failures)
      fallback == [CreateSimpleBugs(failures, test_url, page_info) EXCEPT !.calls = called]
  IN IF beforeCall \/ reply.kind \in {"call_raises", "nonjson"} THEN fallback
     ELSE IF \E i \in 1..n : ItemRaises(reply.items[i], failures[i]) THEN fallback
     ELSE Ok([i \in 1..n |-> ValidatedBug(reply.items[i], failures[i])], called)

GenerateUserFriendlyBugs_NoGuard(failures, test_url, page_info, script_analysis, reply) ==
  AskGeminiForBugs(failures, test_url, page_info, script_analysis, reply)

GenerateUserFriendlyBugs(failures, test_url, page_info, script_analysis, reply) ==
  IF failures = <<>> THEN Ok(<<>>, 0)
  ELSE AskGeminiForBugs(failures, test_url, page_info, script_analysis, reply)

\* ----------------------------------------------------------- text lengths
MaxTitle == 255

\* a word of 300 characters, and its first 255 characters
LongWord == "x * 300"

LongWordCut == "x * 255"

\* len(elem) of a one-word element
CharLen(tok) ==
  CASE tok = "Go" -> 2
    [] tok = "" -> 0
    [] tok = LongWord -> 300
    [] tok = LongWordCut -> 255
    [] OTHER -> 5

RECURSIVE WordsLen(_)
WordsLen(toks) == IF toks = <<>> THEN 0 ELSE CharLen(Head(toks)) + 1 + WordsLen(Tail(toks))

\* len(text): the words and the blanks between them
TextLen(text) == IF text.toks = <<>> THEN 0 ELSE WordsLen(text.toks) - 1

\* text[:n]; in the texts tried the cut falls inside a leading long word or
\* between two words
Clip(text, n) ==
  IF TextLen(text) <= n THEN text
  ELSE IF text.toks[1] = LongWord /\ n = MaxTitle THEN Str(<<LongWordCut>>)
  ELSE LET fits == {k \in 0..Len(text.toks) : TextLen(Str(SubSeq(text.toks, 1, k))) <= n}
           most == CHOOSE k \in fits : \A j \in fits : j <= k
       IN Str(SubSeq(text.toks, 1, most))

\* ------------------------------------------------------ _validate_recommendation
valid_impacts == {"low", "medium", "high"}

valid_categories == {"performance", "security", "accessibility", "seo", "ux"}

Rec(title, description, impact, category) ==
  [title |-> title, description |-> description, impact |-> impact, category |-> category]

\* rec[key].lower() raises on a value that is no str; "x" in rec raises on a
\* rec that is no container
ValidateRaises(item) ==
  \/ ~item.isDict
  \/ (Has(item, "impact") /\ ~item.f["impact"].isStr)
  \/ (Has(item, "category") /\ ~item.f["category"].isStr)

EnumOrDefault(item, key, valid, default) ==
  LET given == LowerText(Get(item, key, Str(<<default>>)))
  IN IF Len(given.toks) = 1 /\ given.toks[1] \in valid THEN given.toks[1] ELSE default

\* "key" not in rec or not rec[key]: a missing or empty value gets the default;
\* str(...) turns any other value into a text
TextOrDefault(item, key, default) ==
  IF Has(item, key) /\ item.f[key].toks # <<>> THEN Str(item.f[key].toks) ELSE Str(<<default>>)

ValidateRecommendation(item) ==
  Rec(Clip(TextOrDefault(item, "title", "Test Recommendation"), MaxTitle),
      TextOrDefault(item, "description", "No description provided"),
      EnumOrDefault(item, "impact", valid_impacts, "medium"),
      EnumOrDefault(item, "category", valid_categories, "ux"))

\* ------------------------------------------------ _create_user_friendly_fallback

LowerSet(ws) == {LowerTok(ws[i]) : i \in DOMAIN ws}

\* a.lower() in b.lower() or b.lower() in a.lower(), on one-word texts
Overlaps(a, b) == a = "" \/ b = "" \/ LowerTok(a) = LowerTok(b)

RECURSIVE ActualElements(_, _, _)
ActualElements(tested, headings, buttons) ==
  IF tested = <<>> THEN <<>>
  ELSE LET t == Head(tested)
           hs == SelectSeq(headings, LAMBDA h : Overlaps(h, t))
           bs == SelectSeq(buttons, LAMBDA b : Overlaps(b, t))
       IN (IF hs = <<>> THEN <<>> ELSE <<[what |-> "heading", text |-> hs[1]]>>)
          \o (IF bs = <<>> THEN <<>> ELSE <<[what |-> "button", text |-> bs[1]]>>)
          \o ActualElements(Tail(tested), headings, buttons)

MapText(es) == [i \in DOMAIN es |-> es[i].text]

\* a variant that lists every button, referenced by the script or not
UntestedElements_EveryButton(all_buttons, element_texts) ==
  SelectSeq(Take(all_buttons, 10), LAMBDA b : b # "")

\* lines 733-738: the buttons among the first ten that no selector text names
UntestedElements(all_buttons, element_texts) ==
  SelectSeq(Take(all_buttons, 10),
            LAMBDA b : b # "" /\ LowerTok(b) \notin LowerSet(element_texts))

CreateUserFriendlyFallback(failures, test_url, page_info, script_analysis) ==
  IF page_info.kind = "malformed" THEN Raise("AttributeError", 0)
  ELSE
    LET page_name == IF page_info.kind = "dict" /\ page_info.title.toks # <<>>
                     THEN page_info.title.toks ELSE <<test_url>>
    IN IF failures # <<>>
       THEN IF ~failures[1].error.isStr THEN Raise("TypeError", 0)
            ELSE Ok(Rec(Str(<<"Fix an issue with">> \o failures[1].title.toks),
                        Str(<<"found an issue on">> \o page_name \o failures[1].error.toks),
                        "high", "ux"), 0)
       ELSE
         LET isDict == page_info.kind = "dict"
             headings == IF isDict THEN Take(page_info.headings, 3) ELSE <<>>
             buttons == IF isDict THEN Take(page_info.buttons, 3) ELSE <<>>
             element_texts == IF isDict THEN script_analysis.element_texts ELSE <<>>
             matched == ActualElements(Take(element_texts, 5), headings, buttons)
             listed == [i \in DOMAIN headings |-> [what |-> "heading", text |-> headings[i]]]
                       \o [i \in DOMAIN buttons |-> [what |-> "button", text |-> buttons[i]]]
             actual_elements ==
               IF ~isDict THEN <<>>
               ELSE IF matched # <<>> THEN matched
               ELSE Take(SelectSeq(listed, LAMBDA e : e.text # ""), 3)
             all_buttons == IF isDict THEN page_info.buttons ELSE <<>>
             untested_elements == UntestedElements(all_buttons, element_texts)
             elements_tested == IF actual_elements # <<>>
                                THEN MapText(Take(actual_elements, 2))
                                ELSE <<"several elements">>
         IN IF untested_elements # <<>>
            THEN Ok(Rec(Str(<<"Test additional buttons on">> \o page_name),
                        Str(<<"We checked">> \o elements_tested
                            \o <<"haven't been tested yet:">> \o Take(untested_elements, 3)),
                        "medium", "ux"), 0)
            ELSE IF actual_elements # <<>>
            THEN Ok(Rec(Str(<<"Expand testing for">> \o page_name),
                        Str(<<"successfully verified">> \o MapText(Take(actual_elements, 3))),
                        "low", "accessibility"), 0)
            ELSE Ok(Rec(Str(<<"Continue improving">> \o page_name),
                        Str(<<"passed our initial automated tests">> \o <<test_url>>),
                        "medium", "ux"), 0)

\* ------------------------------------------------ _ask_gemini_for_recommendations
HasUrlRef(rec, test_url) == IsSub(test_url, rec.description) \/ IsSub(test_url, rec.title)

HasElementRef(rec, page_info, script_analysis) ==
  /\ page_info.kind = "dict"
  /\ LET all_elements == Take(page_info.headings, 5) \o Take(page_info.buttons, 5)
                         \o Take(script_analysis.test_names, 5)
     IN \E i \in DOMAIN all_elements :
          /\ all_elements[i] # ""
          /\ CharLen(all_elements[i]) > 3
          /\ (IsSub(all_elements[i], rec.description) \/ IsSub(all_elements[i], rec.title))

Accepted(rec, failures, test_url, page_info, script_analysis) ==
  failures # <<>> \/ HasUrlRef(rec, test_url) \/ HasElementRef(rec, page_info, script_analysis)

RecCandidates_NoCap(items) == items

\* line 636: recommendations[:5]
RecCandidates(items) == Take(items, MaxRecs)

AskGeminiForRecommendations(failures, test_url, test_results, script_content, page_info, reply) ==
  IF reply.kind = "client_raises"
  THEN Raise("UnboundLocalError", 0)   \* the handler reads script_analysis, not yet bound
  ELSE
    LET script_analysis == ParseTestScript(script_content)
        firstThree == Take(failures, 3)
        beforeCall == \/ page_info.kind = "malformed"
                      \/ \E i \in DOMAIN firstThree : ~firstThree[i].error.isStr
        called == CallsMade(beforeCall)
        made == CreateUserFriendlyFallback(failures, test_url, page_info, script_analysis)
        fallback == IF made.raised THEN [made EXCEPT !.calls = called]
                    ELSE Ok(<<made.value>>, called)
        candidates == RecCandidates(reply.items)
        recs == [i \in DOMAIN candidates |-> ValidateRecommendation(candidates[i])]
        validated == SelectSeq(recs, LAMBDA r :
                                 Accepted(r, failures, test_url, page_info, script_analysis))
    IN IF beforeCall \/ reply.kind \in {"call_raises", "nonjson"} THEN fallback
       ELSE IF \E i \in DOMAIN candidates : ValidateRaises(candidates[i]) THEN fallback
       ELSE IF validated = <<>> THEN fallback
       ELSE Ok(validated, called)

\* ------------------------------------------------------------- run inputs
FailingSamples ==
  { [title |-> Str(<<"checks", "'Sign Up'">>), status |-> "failed",
     error |-> ErrDict(Str(<<"Timeout", "locator">>))],
    [title |-> Str(<<"Login">>), status |-> "timedOut",
     error |-> ErrDict(Str(<<"boom">>))],
    [title |-> Str(<<"home">>), status |-> "failed",
     error |-> ErrDict(NonStr)] }

OneTest(title, status, error) ==
  SpecEntry(<<TestEntry(title, <<TestResult(status, error)>>)>>)

PassingSpec == OneTest(Str(<<"home">>), "passed", ErrDict(Str(<<>>)))

\* a report with p passing tests followed by k failing tests like sample
MkReport(p, k, sample) ==
  ReportTree(<<Suite([i \in 1..(p + k) |->
                        IF i <= p THEN PassingSpec
                        ELSE OneTest(sample.title, sample.status, sample.error)],
                     <<>>)>>)

\* numbers of failing tests tried: none, one, and the two around the cap
FailCounts == {1, MaxFailing - 1, MaxFailing}

Reports ==
  {MkReport(p, 0, CHOOSE x \in FailingSamples : TRUE) : p \in 0..1}
  \cup {MkReport(p, k, x) : p \in 0..1, k \in FailCounts, x \in FailingSamples}

Stdouts ==
  { <<>>, <<NoiseChunk>>, <<NoiseChunk, TruncatedChunk>>,
    <<JsonChunk(FalsyJson)>>, <<JsonChunk(NonDictJson)>> }
  \cup {<<JsonChunk(r)>> : r \in Reports}
  \cup {<<NoiseChunk, JsonChunk(MkReport(1, 1, x)), NoiseChunk>> : x \in FailingSamples}

\* exit code and diagnostic stream of the runner
Diagnostics ==
  { [returncode |-> 0, stderr |-> <<>>],
    [returncode |-> 1, stderr |-> <<>>],
    [returncode |-> 0, stderr |-> <<"warn", "warn">>] }

Scripts ==
  { NonTextScript,
    MkScript(<<Line("fence", "", "", ""), Code("test", "login works"),
               Code("getByText", "Login"), Line("fence", "", "", "")>>) }

Urls == {"https://shop.test"}

PageInfos ==
  { NoPageInfo, MalformedPageInfo,
    PageDict(<<"Shop">>, <<"Welcome">>, <<"Sign Up", "Login">>) }

BugItems ==
  { Item([title |-> Str(<<"The Sign Up button can't be found">>)]),
    Item([severity |-> Str(<<"urgent">>)]),
    NonDictItem }

RecItems ==
  { Item([title |-> Str(<<"Check", "https://shop.test">>), impact |-> Str(<<"High">>)]),
    Item([title |-> Str(<<"Improve your site">>), category |-> Str(<<"speed">>)]),
    NonDictItem }

\* lengths of the JSON arrays tried: empty, one, and the two around the cap
ListSizes == {0, 1, MaxItems - 1, MaxItems}

Replies(items) ==
  { Reply("client_raises", <<>>), Reply("call_raises", <<>>), Reply("nonjson", <<>>),
    Reply("scalar", <<NonDictItem>>) }
  \cup {Reply("object", <<x>>) : x \in {y \in items : y.isDict}}
  \cup {Reply("list", [i \in 1..n |-> x]) : n \in ListSizes, x \in items}

\* ------------------------------------------------------- state of one run
VARIABLES
  pc,              \* position in run_script
  script_content,  \* argument
  test_url,        \* argument
  page_info,       \* argument
  script,          \* _clean_script(script_content)
  tmp_file,        \* TRUE while the temp script file exists
  screenshot_dir,  \* TRUE while the capture directory exists
  dir_files,       \* the .png files in the capture directory, by mtime
  proc,            \* the completed runner process
  logs, failures, screenshots, first_screenshot, duration, result,
  status, bugs,
  exc,             \* the exception being handled or propagated
  response,        \* the dict run_script returns
  outcome,         \* "running", "returned" or "raised"
  bug_calls,       \* generate_content calls made for bug generation
  rec_calls,       \* generate_content calls made for recommendations
  cleanup,         \* what the finally block did
  task,            \* a helper function called on its own: the call's arguments
  ret,             \* ... and what the call returned
  fs,              \* the temp directory shared by concurrent runs
  runs             \* the concurrent runs: position and resources of each

vars == <<pc, script_content, test_url, page_info, script, tmp_file, screenshot_dir,
          dir_files, proc, logs, failures, screenshots, first_screenshot, duration,
          result, status, bugs, exc, response, outcome, bug_calls, rec_calls, cleanup,
          task, ret, fs, runs>>

inputs == <<script_content, test_url, page_info>>

\* the locals of run_script
locals == <<script, tmp_file, screenshot_dir, dir_files, proc, logs, failures,
            screenshots, first_screenshot, duration, result, status, bugs, exc,
            response, outcome, bug_calls, rec_calls, cleanup>>

\* what a single run of run_script leaves alone
aside == <<task, ret, fs, runs>>

NoTask == [fn |-> "none"]

NoRet == [fn |-> "none"]

NoFs == [files |-> {}, dirs |-> {}]

NoRuns == <<>>

NoProc == [returncode |-> 0, stdout |-> <<>>, stderr |-> <<>>]

NoResponse == [none |-> TRUE]

NoCleanup == [ran |-> FALSE, remove_raised |-> FALSE, rmtree_called |-> FALSE,
              rmtree_raised |-> FALSE]

Locals0 ==
  /\ script = MkScript(<<>>)
  /\ tmp_file = FALSE
  /\ screenshot_dir = FALSE
  /\ dir_files = <<>>
  /\ proc = NoProc
  /\ logs = <<>>
  /\ failures = <<>>
  /\ screenshots = <<>>
  /\ first_screenshot = ""
  /\ duration = "0s"
  /\ result = NoResult
  /\ status = ""
  /\ bugs = <<>>
  /\ exc = Str(<<>>)
  /\ response = NoResponse
  /\ outcome = "running"
  /\ bug_calls = 0
  /\ rec_calls = 0
  /\ cleanup = NoCleanup

Aside0 ==
  /\ task = NoTask
  /\ ret = NoRet
  /\ fs = NoFs
  /\ runs = NoRuns

Init ==
  /\ pc = "start"
  /\ script_content \in Scripts
  /\ test_url \in Urls
  /\ page_info \in PageInfos
  /\ Locals0
  /\ Aside0

\* lines 774-799: everything before the try block. An exception here leaves
\* run_script at once: no handler and no finally block apply.
Normalize ==
  /\ pc = "start"
  /\ LET cleaned == CleanScript(script_content)
     IN \E mkdtemp \in {"ok", "raises"} :
          IF cleaned.raised \/ mkdtemp = "raises"
          THEN /\ exc' = IF cleaned.raised THEN cleaned.exc ELSE Str(<<"OSError">>)
               /\ outcome' = "raised"
               /\ pc' = "done"
               /\ UNCHANGED <<script, screenshot_dir, logs>>
          ELSE /\ script' = cleaned.value
               /\ screenshot_dir' = TRUE
               /\ logs' = Append(logs, LogLine("Screenshot dir", <<>>))
               /\ pc' = "write"
               /\ UNCHANGED <<exc, outcome>>
  /\ UNCHANGED <<inputs, aside, tmp_file, dir_files, proc, failures, screenshots,
                 first_screenshot, duration, result, status, bugs, response,
                 bug_calls, rec_calls, cleanup>>

\* lines 801-810: write the composed script
WriteScript ==
  /\ pc = "write"
  /\ \E how \in {"ok", "open_raises", "write_raises"} :
       /\ tmp_file' = (how # "open_raises")
       /\ IF how = "ok"
          THEN /\ logs' = logs \o <<LogLine("Saved test file", <<>>), LogLine("Executing", <<>>)>>
               /\ pc' = "run"
               /\ UNCHANGED exc
          ELSE /\ exc' = Str(<<"OSError">>)
               /\ pc' = "error"
               /\ UNCHANGED logs
  /\ UNCHANGED <<inputs, aside, script, screenshot_dir, dir_files, proc, failures, screenshots,
                 first_screenshot, duration, result, status, bugs, response, outcome,
                 bug_calls, rec_calls, cleanup>>

ShotNames == <<"a.png", "b.png", "c.png">>

\* lines 812-815: subprocess.run(..., timeout=300) and the elapsed time
RunProcess ==
  /\ pc = "run"
  /\ \E how \in {"completes", "timeout", "raises"} :
       IF how = "completes"
       THEN \E d \in Diagnostics, out \in Stdouts, n \in 0..MaxShots :
              /\ proc' = [returncode |-> d.returncode, stdout |-> out, stderr |-> d.stderr]
              /\ dir_files' = Take(ShotNames, n)
              /\ duration' = "measured"
              /\ pc' = "extract"
              /\ UNCHANGED exc
       ELSE /\ exc' = Str(<<IF how = "timeout" THEN "TimeoutExpired" ELSE "OSError">>)
            /\ pc' = IF how = "timeout" THEN "timeout" ELSE "error"
            /\ UNCHANGED <<proc, dir_files, duration>>
  /\ UNCHANGED <<inputs, aside, script, tmp_file, screenshot_dir, logs, failures, screenshots,
                 first_screenshot, result, status, bugs, response, outcome,
                 bug_calls, rec_calls, cleanup>>

StderrLogs(stderr) ==
  LET lines == Take(stderr, MaxStderrLines)
  IN IF lines = <<>> THEN <<>>
     ELSE <<LogLine("STDERR:", <<>>)>> \o [i \in DOMAIN lines |-> LogLine("stderr", <<lines[i]>>)]

\* a variant in which the walk is followed by bug generation at once
AfterExtract_SkipCollection == "bugs"

\* line 841: the statement after the walk of the tree is the try block of the
\* screenshot collection
AfterExtract == "collect"

\* lines 817-839: stderr to the logs, _extract_json, the walk of the tree
ExtractResults ==
  /\ pc = "extract"
  /\ LET parsed == ExtractJson(proc.stdout)
         withStderr == logs \o StderrLogs(proc.stderr)
         rows == ResultRows(parsed)
     IN /\ result' = parsed
        /\ IF parsed.kind = "nondict"          \* result.get raises AttributeError
           THEN /\ logs' = withStderr
                /\ exc' = Str(<<"AttributeError">>)
                /\ pc' = "error"
                /\ UNCHANGED failures
           ELSE IF Truthy(parsed)
           THEN /\ logs' = withStderr \o RowLogs(rows)
                /\ failures' = FailuresOf(rows)
                /\ pc' = AfterExtract
                /\ UNCHANGED exc
           ELSE /\ logs' = withStderr \o <<LogLine("Could not parse Playwright JSON output.", <<>>),
                                            LogLine("stdout", <<>>)>>
                /\ pc' = AfterExtract
                /\ UNCHANGED <<failures, exc>>
  /\ UNCHANGED <<inputs, aside, script, tmp_file, screenshot_dir, dir_files, proc, screenshots,
                 first_screenshot, duration, status, bugs, response, outcome,
                 bug_calls, rec_calls, cleanup>>

\* lines 841-859: the collection has its own try block; fail_at = 0 is a
\* collection without error, fail_at = k the failure to read the k-th file,
\* and fail_at = Len(dir_files) + 1 a failure of listdir or getmtime
CollectScreenshots ==
  /\ pc = "collect"
  /\ \E fail_at \in 0..(Len(dir_files) + 1) :
       LET read == IF fail_at = 0 THEN dir_files
                   ELSE IF fail_at > Len(dir_files) THEN <<>>
                   ELSE SubSeq(dir_files, 1, fail_at - 1)
           opened == IF fail_at = 0 \/ fail_at > Len(dir_files) THEN read
                     ELSE SubSeq(dir_files, 1, fail_at)
       IN /\ screenshots' = [i \in DOMAIN read |-> [filename |-> read[i], b64 |-> read[i]]]
          /\ first_screenshot' = IF opened = <<>> THEN "" ELSE opened[1]
          /\ logs' = Append(logs, IF fail_at = 0 THEN LogLine("Collected screenshots", <<>>)
                                  ELSE LogLine("Screenshot collection error", <<>>))
  /\ pc' = "bugs"
  /\ UNCHANGED <<inputs, aside, script, tmp_file, screenshot_dir, dir_files, proc, failures,
                 duration, result, status, bugs, exc, response, outcome,
                 bug_calls, rec_calls, cleanup>>

StatusOf_ExitCode(fails, process) ==
  IF fails # <<>> \/ process.returncode # 0 THEN "failed" ELSE "passed"

\* line 861
StatusOf(fails, process) == IF fails # <<>> THEN "failed" ELSE "passed"

\* lines 861-877
GenerateBugs ==
  /\ pc = "bugs"
  /\ status' = StatusOf(failures, proc)
  /\ \E reply \in Replies(BugItems) :
       LET r == GenerateUserFriendlyBugs(failures, test_url, page_info,
                                         ParseTestScript(script), reply)
       IN /\ bug_calls' = bug_calls + r.calls
          /\ IF r.raised
             THEN /\ exc' = r.exc
                  /\ pc' = "error"
                  /\ UNCHANGED bugs
             ELSE /\ bugs' = r.value
                  /\ pc' = "recs"
                  /\ UNCHANGED exc
  /\ UNCHANGED <<inputs, aside, script, tmp_file, screenshot_dir, dir_files, proc, logs, failures,
                 screenshots, first_screenshot, duration, result, response, outcome,
                 rec_calls, cleanup>>

\* lines 892-902
NormalResponse(st, lg, bg, recs, dur, shots, res) ==
  [success |-> TRUE, status |-> st, logs |-> Dedup(lg), bugs |-> bg,
   recommendations |-> recs, duration |-> dur, browser |-> "chromium",
   screenshots |-> shots, results |-> res]

\* lines 931-939 and 967-975
FailureResponse(st, lg, bg, recs, dur) ==
  [success |-> FALSE, status |-> st, logs |-> lg, bugs |-> bg,
   recommendations |-> recs, duration |-> dur, screenshots |-> <<>>]

\* lines 879-902
GenerateRecommendations ==
  /\ pc = "recs"
  /\ \E reply \in Replies(RecItems) :
       LET r == AskGeminiForRecommendations(failures, test_url, result, script,
                                            page_info, reply)
           done == logs \o <<LogLine("Generated bug reports and recommendations",
                                     <<ToString(Len(bugs)), ToString(Len(r.value))>>),
                             LogLine("Test execution complete.", <<>>)>>
       IN /\ rec_calls' = rec_calls + r.calls
          /\ IF r.raised
             THEN /\ exc' = r.exc
                  /\ pc' = "error"
                  /\ UNCHANGED <<logs, response, outcome>>
             ELSE /\ logs' = done
                  /\ response' = NormalResponse(status, done, bugs, r.value, duration,
                                                screenshots, result)
                  /\ outcome' = "returned"
                  /\ pc' = "cleanup"
                  /\ UNCHANGED exc
  /\ UNCHANGED <<inputs, aside, script, tmp_file, screenshot_dir, dir_files, proc, failures,
                 screenshots, first_screenshot, duration, result, status, bugs,
                 bug_calls, cleanup>>

\* line 906
timeout_failure ==
  <<[title |-> Str(<<"Test Timeout">>), error |-> Str(<<"Execution exceeded 300s limit">>)]>>

\* lines 908-921
TimeoutBug ==
  Bug(Str(<<"Website is taking too long to respond">>),
      Str(<<"took longer than 5 minutes to respond">>), "critical")

\* line 942: str(e)
ErrorFailure(e) == <<[title |-> Str(<<"Execution Error">>), error |-> Str(e.toks)]>>

\* lines 944-957
ErrorBug(e) ==
  Bug(Str(<<"Automated testing encountered a technical issue">>),
      Str(<<"ran into an unexpected problem:">> \o e.toks), "medium")

\* the body shared by the two handlers: the canned bug, the recommendations
\* for the synthetic failure, the response. An exception raised in a handler
\* propagates once the finally block has run.
Handle(st, line, canned, synthetic) ==
  \E reply \in Replies(RecItems) :
    LET r == AskGeminiForRecommendations(synthetic, test_url, NoResult, script,
                                         page_info, reply)
        lg == Append(logs, line)
    IN /\ logs' = lg
       /\ bugs' = <<canned>>
       /\ rec_calls' = rec_calls + r.calls
       /\ IF r.raised
          THEN /\ exc' = r.exc
               /\ outcome' = "raised"
               /\ UNCHANGED response
          ELSE /\ response' = FailureResponse(st, lg, <<canned>>, r.value, duration)
               /\ outcome' = "returned"
               /\ UNCHANGED exc
       /\ pc' = "cleanup"

\* lines 904-939: except subprocess.TimeoutExpired
OnTimeout ==
  /\ pc = "timeout"
  /\ Handle("timeout", LogLine("Test execution timeout (300s limit)", <<>>), TimeoutBug,
            timeout_failure)
  /\ UNCHANGED <<inputs, aside, script, tmp_file, screenshot_dir, dir_files, proc, failures,
                 screenshots, first_screenshot, duration, result, status,
                 bug_calls, cleanup>>

\* lines 940-975: except Exception as e
OnError ==
  /\ pc = "error"
  /\ Handle("error", LogLine("Unexpected error", exc.toks), ErrorBug(exc), ErrorFailure(exc))
  /\ UNCHANGED <<inputs, aside, script, tmp_file, screenshot_dir, dir_files, proc, failures,
                 screenshots, first_screenshot, duration, result, status,
                 bug_calls, cleanup>>

\* lines 976-983: one try block around both removals; what raises in it is
\* printed and dropped
Finally(file, dir, remove, rmtree) ==
  LET remove_raised == file /\ remove = "raises"
      rmtree_called == ~remove_raised /\ dir
      rmtree_raised == rmtree_called /\ rmtree = "raises"
  IN [file |-> file /\ remove_raised,
      dir |-> dir /\ (~rmtree_called \/ rmtree_raised),
      done |-> [ran |-> TRUE, remove_raised |-> remove_raised,
                rmtree_called |-> rmtree_called, rmtree_raised |-> rmtree_raised]]

Cleanup ==
  /\ pc = "cleanup"
  /\ \E remove \in {"ok", "raises"}, rmtree \in {"ok", "raises"} :
       LET f == Finally(tmp_file, screenshot_dir, remove, rmtree)
       IN /\ tmp_file' = f.file
          /\ screenshot_dir' = f.dir
          /\ cleanup' = f.done
  /\ pc' = "done"
  /\ UNCHANGED <<inputs, aside, script, dir_files, proc, logs, failures, screenshots,
                 first_screenshot, duration, result, status, bugs, exc, response,
                 outcome, bug_calls, rec_calls>>

Next ==
  \/ Normalize
  \/ WriteScript
  \/ RunProcess
  \/ ExtractResults
  \/ CollectScreenshots
  \/ GenerateBugs
  \/ GenerateRecommendations
  \/ OnTimeout
  \/ OnError
  \/ Cleanup

Spec == Init /\ [][Next]_vars

\* ================================================================ claims
Finished == pc = "done"

Returned == pc = "done" /\ outcome = "returned"

Logged(tag) == \E i \in DOMAIN logs : logs[i].tag = tag

\* the runner exceeded its ceiling in this run
RunnerTimedOut == Logged("Test execution timeout (300s limit)")

\* the except Exception handler ran in this run
HandlerRan == Logged("Unexpected error")

valid_statuses == {"passed", "failed", "timeout", "error"}

\* C1: whatever the inputs, the runner and the generative call do, a run that
\* has entered its try block ends by returning a response with a valid status
\* and lists of bugs and recommendations; no exception leaves run_script.
C1_AlwaysReturns ==
  (Finished /\ cleanup.ran) =>
    /\ outcome = "returned"
    /\ response.status \in valid_statuses
    /\ DOMAIN response.bugs = 1..Len(response.bugs)
    /\ DOMAIN response.recommendations = 1..Len(response.recommendations)

\* C2: once the run has finished, the temp script file and the capture
\* directory are gone, unless the removal of that very resource raised.
C2_ResourcesGone ==
  Finished =>
    /\ (tmp_file => cleanup.remove_raised)
    /\ (screenshot_dir => cleanup.rmtree_raised)

\* C3: the finally block attempts both removals; when one removal raises, the
\* error does not reach the caller and the other resource is still released.
C3_OtherStillReleased ==
  (Finished /\ cleanup.ran) =>
    /\ (cleanup.remove_raised => ~screenshot_dir)
    /\ (cleanup.rmtree_raised => ~tmp_file)

\* C4 as claimed: under every outcome the response has at most
\* min(5, number of failures extracted from the report) bugs.
C4_BugsBoundedEveryOutcome ==
  Returned => Len(response.bugs) <= Min(MaxBugs, Len(failures))

\* C4 as amended: a passed or failed response has at most
\* min(5, number of extracted failures) bugs, hence none without failures; a
\* timeout or error response has exactly one synthesized bug.
C4_BugsBounded ==
  Returned =>
    /\ (response.status \in {"passed", "failed"} =>
          Len(response.bugs) <= Min(MaxBugs, Len(failures)))
    /\ (response.status \in {"timeout", "error"} => Len(response.bugs) = 1)

C4_Witness ==
  /\ Returned
  /\ response.status = "failed"
  /\ Len(failures) > MaxBugs
  /\ Len(response.bugs) = MaxBugs

\* C5: with an empty failure list bug generation returns the empty list and
\* makes no generative call; the call is made only with at least one failure.
C5_NoBugCallWithoutFailures ==
  /\ (bug_calls > 0 => failures # <<>>)
  /\ (pc = "recs" /\ failures = <<>> => bugs = <<>>)

C5_Witness ==
  /\ pc = "recs"
  /\ result.kind = "dict"
  /\ failures = <<>>
  /\ bugs = <<>>
  /\ bug_calls = 0

\* C6: every response carries between 1 and 5 recommendations, whatever the
\* generative call returned and whatever the outcome.
C6_RecommendationCount ==
  Returned =>
    /\ Len(response.recommendations) >= 1
    /\ Len(response.recommendations) <= MaxRecs

C6_Witness ==
  /\ Returned
  /\ response.status = "passed"
  /\ rec_calls = 1
  /\ Len(response.recommendations) = MaxRecs

\* C7: a run whose runner timed out returns status timeout with success
\* false, exactly one bug of severity critical, no screenshots and at least
\* one recommendation, and its cleanup has run.
C7_TimeoutResponse ==
  (Finished /\ RunnerTimedOut) =>
    /\ outcome = "returned"
    /\ response.status = "timeout"
    /\ response.success = FALSE
    /\ Len(response.bugs) = 1
    /\ response.bugs[1].severity = "critical"
    /\ response.screenshots = <<>>
    /\ Len(response.recommendations) >= 1
    /\ cleanup.ran

\* an exception was raised in normalize, execute, extract or classify
PhaseRaised == (Finished /\ ~cleanup.ran) \/ HandlerRan

\* C8: an exception raised while normalizing, executing, extracting or
\* classifying makes the run return status error with exactly one bug of
\* severity medium, with recommendations and with its cleanup run.
C8_ErrorResponse ==
  (Finished /\ PhaseRaised) =>
    /\ outcome = "returned"
    /\ response.status = "error"
    /\ Len(response.bugs) = 1
    /\ response.bugs[1].severity = "medium"
    /\ \A i \in DOMAIN exc.toks : \E j \in DOMAIN response.bugs[1].description.toks :
         response.bugs[1].description.toks[j] = exc.toks[i]
    /\ Len(response.recommendations) >= 1
    /\ cleanup.ran

\* C9: on normal completion the status is failed exactly when a failure was
\* recorded from the result tree, whatever the exit code and the diagnostic
\* stream; screenshots were collected and recommendations generated.
C9_StatusFromFailures ==
  (Returned /\ response.success) =>
    /\ response.status \in {"passed", "failed"}
    /\ (response.status = "failed" <=> failures # <<>>)
    /\ failures = (IF result.kind = "dict" THEN FailuresOf(ResultRows(result)) ELSE <<>>)
    /\ (Logged("Collected screenshots") \/ Logged("Screenshot collection error"))
    /\ Len(response.recommendations) >= 1

C9_Witness ==
  /\ Returned
  /\ response.status = "passed"
  /\ proc.returncode # 0

response_fields ==
  {"success", "status", "logs", "bugs", "recommendations", "duration", "screenshots", "results"}

\* C10: every response has the eight fields success, status, logs, bugs,
\* recommendations, duration, screenshots and results.
C10_AllFields == Returned => response_fields \subseteq DOMAIN response

\* ==================================================== helpers called alone
\* A second specification: one helper of PlaywrightTestExecutor is called on
\* arguments drawn from bounded sets, and ret records what it returned.
MaxWords == 2

\* the strings of at most n words
Texts(words, n) == UNION {{Str(w) : w \in [1..k -> words]} : k \in 0..n}

ErrorWords == {"Timeout", "TIMEOUT", "locator", "Not Found", "Login", "boom"}

TitleWords == {"Login", "Checkout", "home", "locator", "Timeout"}

CategorizeTasks ==
  {[fn |-> "categorize", error |-> e, title |-> t] :
     e \in Texts(ErrorWords, MaxWords), t \in Texts(TitleWords, MaxWords)}

MaxLines == 3

LineSamples ==
  { Line("fence", "", "", ""), Line("ifence", "", "", ""), Line("blank", "", "", ""),
    Code("getByText", "Login") }

CleanTasks ==
  {[fn |-> "clean", script |-> MkScript(ls)] :
     ls \in UNION {[1..k -> LineSamples] : k \in 0..MaxLines}}

SampleUrl == "https://shop.test"

SamplePage == PageDict(<<"Shop">>, <<"Welcome">>, <<"Sign Up", "Login">>)

SampleScript == MkScript(<<Code("test", "login works"), Code("getByText", "Login")>>)

SampleFailure == [title |-> Str(<<"checks", "'Sign Up'">>), error |-> Str(<<"Timeout", "locator">>)]

\* both generation tasks given the same behaviour of the generative call
GenerateTasks ==
  {[fn |-> "generate", failures |-> f, page_info |-> p, reply |-> r] :
     f \in {<<>>, <<SampleFailure>>, <<SampleFailure, SampleFailure>>},
     p \in {NoPageInfo, SamplePage},
     r \in { Reply("client_raises", <<>>), Reply("call_raises", <<>>), Reply("nonjson", <<>>),
             Reply("list", <<>>), Reply("list", <<Item([title |-> Str(<<"Check", "Login">>)])>>) }}

\* reports whose tests sit in top-level suites, in child suites (describe
\* blocks), or in both
NestedReports ==
  LET Failing(x) == OneTest(x.title, x.status, x.error)
  IN {ReportTree(<<Suite(<<PassingSpec>>, <<>>)>>)}
     \cup {ReportTree(<<Suite(<<PassingSpec, Failing(x)>>, <<>>)>>) : x \in FailingSamples}
     \cup {ReportTree(<<Suite(<<PassingSpec>>, <<Suite(<<Failing(x)>>, <<>>)>>)>>) :
              x \in FailingSamples}
     \cup {ReportTree(<<Suite(<<Failing(x)>>, <<Suite(<<PassingSpec, Failing(y)>>, <<>>)>>)>>) :
              x \in FailingSamples, y \in FailingSamples}

WalkTasks ==
  {[fn |-> "walk", stdout |-> out] :
     out \in {<<JsonChunk(r)>> : r \in NestedReports}
              \cup {<<NoiseChunk, JsonChunk(r), NoiseChunk>> : r \in NestedReports}}

\* button lists of the page: none, the two of the scenario, one referenced
\* button, four buttons the sample script does not reference, and an
\* unreferenced button behind ten referenced ones
ButtonLists ==
  { <<>>, <<"Sign Up", "Login">>, <<"Login">>,
    <<"Sign Up", "Checkout", "Help", "Go", "Login">>,
    [i \in 1..11 |-> IF i <= 10 THEN "Login" ELSE "Sign Up"] }

FallbackScripts ==
  { SampleScript,
    MkScript(<<Code("test", "login works")>>),
    MkScript(<<Code("getByText", "Login"), Code("getByText", "Sign Up")>>) }

FallbackTasks ==
  {[fn |-> "fallback", failures |-> f, page_info |-> p, script |-> sc] :
     f \in {<<>>, <<SampleFailure>>},
     p \in {NoPageInfo} \cup {PageDict(<<"Shop">>, h, b) : h \in {<<>>, <<"Welcome">>},
                                                          b \in ButtonLists},
     sc \in FallbackScripts}

\* bug objects of the reply: without severity, with a severity outside the
\* four values, with a valid one in capitals, with one that is no text
SeverityItems ==
  { Item([title |-> Str(<<"The Sign Up button can't be found">>)]),
    Item([severity |-> Str(<<"urgent">>)]),
    Item([severity |-> Str(<<"Low">>)]),
    Item([severity |-> NonStr]) }

PlainFailure == [title |-> Str(<<"home">>), error |-> Str(<<"boom">>)]

BugTasks ==
  {[fn |-> "bugs", failures |-> f, items |-> its] :
     f \in UNION {[1..k -> {SampleFailure, PlainFailure}] : k \in 1..2},
     its \in UNION {[1..k -> SeverityItems] : k \in 0..2}}

\* candidates of the reply: one naming the url, a generic one, one naming a
\* test of the script only, one naming a button of the page
CandidateItems ==
  { Item([title |-> Str(<<"Check", "https://shop.test">>)]),
    Item([title |-> Str(<<"Improve your site">>)]),
    Item([title |-> Str(<<"Retest", "login works">>)]),
    Item([title |-> Str(<<"Fix">>), description |-> Str(<<"the", "LOGIN", "button">>)]) }

RecTasks ==
  {[fn |-> "recs", test_url |-> u, page_info |-> p, items |-> its] :
     u \in {SampleUrl, ""},
     p \in {NoPageInfo, SamplePage},
     its \in UNION {[1..k -> CandidateItems] : k \in 0..2}}

\* a failing test and a page whose titles are 300 characters long
LongFailure == [title |-> Str(<<LongWord>>), error |-> Str(<<"boom">>)]

LongPage == PageDict(<<LongWord>>, <<"Welcome">>, <<"Sign Up", "Login">>)

TitleReplies ==
  { Reply("nonjson", <<>>),
    Reply("list", <<Item([title |-> Str(<<LongWord>>), impact |-> Str(<<"High">>)])>>),
    Reply("list", <<Item([title |-> Str(<<"Check", "https://shop.test">>),
                          category |-> Str(<<"speed">>)])>>),
    Reply("list", <<Item([title |-> Str(<<"Improve your site">>)])>>) }

TitleTasks ==
  {[fn |-> "titles", failures |-> f, page_info |-> p, reply |-> r] :
     f \in {<<>>, <<SampleFailure>>, <<LongFailure>>},
     p \in {NoPageInfo, SamplePage, LongPage},
     r \in TitleReplies}

Tasks ==
  CategorizeTasks \cup CleanTasks \cup GenerateTasks \cup WalkTasks \cup FallbackTasks
  \cup BugTasks \cup RecTasks \cup TitleTasks

FnInit ==
  /\ pc = "idle"
  /\ script_content = MkScript(<<>>)
  /\ test_url = ""
  /\ page_info = NoPageInfo
  /\ Locals0
  /\ task \in Tasks
  /\ ret = NoRet
  /\ fs = NoFs
  /\ runs = NoRuns

Returns(fn, val) ==
  /\ task.fn = fn
  /\ ret = NoRet
  /\ ret' = [fn |-> fn, val |-> val]
  /\ UNCHANGED <<pc, inputs, locals, task, fs, runs>>

CallCategorize == Returns("categorize", CategorizeBugSeverity(task.error, task.title))

\* _clean_script applied once, and again to its own result
CallCleanScript ==
  LET once == CleanScript(task.script).value
  IN Returns("clean", [once |-> once, twice |-> CleanScript(once).value])

CallGenerate ==
  Returns("generate",
          [bugs |-> GenerateUserFriendlyBugs(task.failures, SampleUrl, task.page_info,
                                             ParseTestScript(SampleScript), task.reply),
           recs |-> AskGeminiForRecommendations(task.failures, SampleUrl, NoResult,
                                                SampleScript, task.page_info, task.reply)])

\* lines 823-836 alone: _extract_json, then the loops that fill failures
CallWalk ==
  LET parsed == ExtractJson(task.stdout)
  IN Returns("walk", IF Truthy(parsed) THEN FailuresOf(ResultRows(parsed)) ELSE <<>>)

CallFallback ==
  Returns("fallback", CreateUserFriendlyFallback(task.failures, SampleUrl, task.page_info,
                                                 ParseTestScript(task.script)))

CallBugs ==
  Returns("bugs", GenerateUserFriendlyBugs(task.failures, SampleUrl, SamplePage,
                                           ParseTestScript(SampleScript),
                                           Reply("list", task.items)))

\* _ask_gemini_for_recommendations for a run without failures
CallRecs ==
  Returns("recs", AskGeminiForRecommendations(<<>>, task.test_url, NoResult, SampleScript,
                                              task.page_info, Reply("list", task.items)))

\* the recommendations a response carries: run_script returns the list of
\* _ask_gemini_for_recommendations as it is (lines 880-887, 923-930, 959-966)
CallTitles ==
  Returns("titles", AskGeminiForRecommendations(task.failures, SampleUrl, NoResult,
                                                SampleScript, task.page_info, task.reply))

FnNext ==
  \/ CallCategorize
  \/ CallCleanScript
  \/ CallGenerate
  \/ CallWalk
  \/ CallFallback
  \/ CallBugs
  \/ CallRecs
  \/ CallTitles

FnSpec == FnInit /\ [][FnNext]_vars

\* the words of a text, lower-cased
LowerWords(text) == {LowerTok(text.toks[i]) : i \in DOMAIN text.toks}

\* C11: _categorize_bug_severity gives every pair of strings one of the four
\* severities, case-insensitively and by priority: a critical keyword in the
\* error gives critical; otherwise a high keyword in the title gives high;
\* otherwise a medium keyword in the error gives medium; otherwise high.
C11_SeverityByPriority ==
  ret.fn = "categorize" =>
    LET crit == LowerWords(task.error) \cap critical_keywords # {}
        high == LowerWords(task.title) \cap high_keywords # {}
        med == LowerWords(task.error) \cap medium_keywords # {}
    IN /\ ~ret.val.raised
       /\ ret.val.value \in {"critical", "high", "medium", "low"}
       /\ (crit => ret.val.value = "critical")
       /\ (~crit /\ high => ret.val.value = "high")
       /\ (~crit /\ ~high /\ med => ret.val.value = "medium")
       /\ (~crit /\ ~high /\ ~med => ret.val.value = "high")

C11_Witness ==
  /\ ret.fn = "categorize"
  /\ task.error = Str(<<"Timeout", "locator">>)
  /\ task.title = Str(<<"Login">>)
  /\ ret.val.value = "critical"

\* C12: _clean_script is idempotent: cleaning a cleaned script changes nothing.
C12_CleanIdempotent == ret.fn = "clean" => ret.val.twice = ret.val.once

\* the generative call raised, or what it returned is no JSON
CallUnusable(reply) == reply.kind \in {"client_raises", "call_raises", "nonjson"}

\* C13: when the generative call raises at any point, the creation of the
\* model client included, or returns text that is no JSON, each generation
\* function returns the result of its deterministic fallback and does not
\* raise.
C13_FallbackOnUnusableCall ==
  (ret.fn = "generate" /\ CallUnusable(task.reply)) =>
    /\ ~ret.val.recs.raised
    /\ ret.val.recs.value =
         <<CreateUserFriendlyFallback(task.failures, SampleUrl, task.page_info,
                                      ParseTestScript(SampleScript)).value>>
    /\ ~ret.val.bugs.raised
    /\ (task.failures # <<>> =>
          ret.val.bugs.value = CreateSimpleBugs(task.failures, SampleUrl, task.page_info).value)

RECURSIVE TestsOfSuite(_)
\* every test of a suite of the report: those of its specs, then those of its
\* child suites
TestsOfSuite(su) ==
  LET TestsOfSpec(sp) == sp.tests
  IN FlatMap(TestsOfSpec, su.specs) \o FlatMap(TestsOfSuite, su.suites)

\* titles of the tests of the report with a failed or timedOut result
FailedTitles(report) ==
  LET tests == FlatMap(TestsOfSuite, report.suites)
      bad == SelectSeq(tests, LAMBDA t : \E i \in DOMAIN t.results :
                                           t.results[i].status \in failing_statuses)
  IN [i \in DOMAIN bad |-> bad[i].title]

\* the report the stdout of the task carries
ReportOf(stdout) == (CHOOSE i \in DOMAIN stdout : stdout[i].kind = "json") 

\* C15: for a well-formed report on stdout, with or without child suites and
\* surrounding noise, the titles of the failures extracted are the titles of
\* the report's tests with a failed or timedOut result, in report order.
C15_FailureTitlesOfReport ==
  ret.fn = "walk" =>
    [i \in DOMAIN ret.val |-> ret.val[i].title]
      = FailedTitles(task.stdout[ReportOf(task.stdout)].value)

\* the words of a text that follow the marker, none when it is absent
After(text, marker) ==
  IF \E i \in DOMAIN text.toks : text.toks[i] = marker
  THEN LET m == CHOOSE i \in DOMAIN text.toks : text.toks[i] = marker
       IN SubSeq(text.toks, m + 1, Len(text.toks))
  ELSE <<>>

\* the buttons the recommendation lists as not tested yet
NamedUntested(rec) == After(rec.description, "haven't been tested yet:")

\* the non-empty buttons among bs that no selector text of the script names
Unreferenced(bs, sc) ==
  SelectSeq(bs, LAMBDA b : b # "" /\ LowerTok(b) \notin LowerSet(ParseTestScript(sc).element_texts))

PageButtons(p) == IF p.kind = "dict" THEN p.buttons ELSE <<>>

\* the page shows a heading or a button the fallback can report as verified
HasVerifiable(p) ==
  /\ p.kind = "dict"
  /\ \E e \in LowerSet(Take(p.headings, 3)) \cup LowerSet(Take(p.buttons, 3)) : e # ""

\* the rows of the table that C16 and its amendment share
FallbackRows(rec, unref) ==
  /\ task.failures # <<>> =>
       /\ rec.impact = "high" /\ rec.category = "ux"
       /\ IsSub(task.failures[1].title.toks[1], rec.title)
  /\ (task.failures = <<>> /\ unref = <<>> /\ HasVerifiable(task.page_info)) =>
       rec.impact = "low" /\ rec.category = "accessibility"
  /\ (task.failures = <<>> /\ task.page_info.kind = "none") =>
       rec.impact = "medium" /\ rec.category = "ux"

\* C16 as stated: with no failures and some page button that the script's
\* selectors do not reference, the fallback is medium / ux and names exactly
\* the unreferenced buttons; the other rows are high / ux for the first
\* failure, low / accessibility for verified elements, medium / ux without
\* page context.
C16_NamesExactlyUnreferenced ==
  ret.fn = "fallback" =>
    LET unref == Unreferenced(PageButtons(task.page_info), task.script)
    IN /\ ~ret.val.raised
       /\ FallbackRows(ret.val.value, unref)
       /\ (task.failures = <<>> /\ unref # <<>>) =>
            /\ ret.val.value.impact = "medium" /\ ret.val.value.category = "ux"
            /\ NamedUntested(ret.val.value) = unref

\* C16, amended: the medium / ux row looks at the first ten buttons of the
\* page only and names the first three of the unreferenced ones among them,
\* in page order; the other rows are as stated.
C16_NamesFirstThreeUnreferenced ==
  ret.fn = "fallback" =>
    LET unref == Unreferenced(Take(PageButtons(task.page_info), 10), task.script)
    IN /\ ~ret.val.raised
       /\ FallbackRows(ret.val.value, unref)
       /\ (task.failures = <<>> /\ unref # <<>>) =>
            /\ ret.val.value.impact = "medium" /\ ret.val.value.category = "ux"
            /\ NamedUntested(ret.val.value) = Take(unref, 3)

C16_Witness ==
  /\ ret.fn = "fallback"
  /\ task.failures = <<>>
  /\ task.script = SampleScript
  /\ PageButtons(task.page_info) = <<"Sign Up", "Checkout", "Help", "Go", "Login">>
  /\ ret.val.value.impact = "medium"
  /\ NamedUntested(ret.val.value) = <<"Sign Up", "Checkout", "Help">>

\* the phase of the run: the handlers and the finally block keep the phase in
\* which the run ended
Phase ==
  CASE pc = "start" -> "Normalizing"
    [] pc \in {"write", "run"} -> "Executing"
    [] pc = "extract" -> "Extracting"
    [] pc = "collect" -> "Collecting"
    [] pc \in {"bugs", "recs"} -> "Classifying"
    [] pc = "timeout" -> "TimedOut"
    [] pc = "error" -> "Errored"
    [] OTHER -> IF RunnerTimedOut THEN "TimedOut"
                ELSE IF HandlerRan THEN "Errored"
                ELSE IF outcome = "returned" THEN "Done"
                ELSE "Raised"

\* a step of the run that enters a phase of the state machine
EntersPhase == Phase' # Phase /\ Phase' # "Raised"

StatedOrder ==
  { <<"Normalizing", "Executing">>, <<"Executing", "Extracting">>,
    <<"Extracting", "Classifying">>, <<"Classifying", "Collecting">>,
    <<"Collecting", "Done">>,
    <<"Executing", "TimedOut">>, <<"Executing", "Errored">> }

CodeOrder ==
  { <<"Normalizing", "Executing">>, <<"Executing", "Extracting">>,
    <<"Extracting", "Collecting">>, <<"Collecting", "Classifying">>,
    <<"Classifying", "Done">>,
    <<"Executing", "TimedOut">>,
    <<"Executing", "Errored">>, <<"Extracting", "Errored">>, <<"Classifying", "Errored">> }

\* C17 as stated: the phases follow Normalizing, Executing, Extracting,
\* Classifying, Collecting, Done, so that collection starts only after bug and
\* recommendation generation, and TimedOut and Errored are entered only from
\* Executing.
C17_StatedPhaseOrder == [][EntersPhase => <<Phase, Phase'>> \in StatedOrder]_vars

\* C17, amended: the phases follow Normalizing, Executing, Extracting,
\* Collecting, Classifying, Done, so that bug and recommendation generation
\* starts only after screenshot collection; TimedOut is entered only from
\* Executing, and Errored from Executing, Extracting or Classifying.
C17_PhaseOrder == [][EntersPhase => <<Phase, Phase'>> \in CodeOrder]_vars

C17_Witness ==
  /\ pc = "recs"
  /\ Logged("Collected screenshots") \/ Logged("Screenshot collection error")
  /\ Logged("Executing")

\* the runner was launched in this run
Launched == Logged("Executing")

NoRepeat(seq) == \A i, j \in DOMAIN seq : seq[i] = seq[j] => i = j

\* C18: under every outcome the duration of the response is the time measured
\* since the runner was launched, not the placeholder "0s" set before the
\* launch.
C18_DurationMeasured ==
  (Returned /\ Launched) => response.duration # "0s"

\* C19: under every outcome the logs of the response hold no line twice.
C19_LogsWithoutDuplicates ==
  Returned => NoRepeat(response.logs)

\* the bug object carries no severity, or one that is not among the four
NeedsRepair(item) ==
  /\ item.isDict
  /\ \/ ~Has(item, "severity")
     \/ ~item.f["severity"].isStr
     \/ LowerWords(item.f["severity"]) \cap valid_severities = {}

\* C20: a returned bug whose severity is absent or not one of critical, high,
\* medium, low gets the severity that _categorize_bug_severity gives for the
\* error and title of the failure at the same index.
C20_SeverityRepaired ==
  ret.fn = "bugs" =>
    /\ ~ret.val.raised
    /\ \A i \in DOMAIN ret.val.value :
         (i \in DOMAIN task.items /\ NeedsRepair(task.items[i])) =>
           ret.val.value[i].severity
             = CategorizeBugSeverity(task.failures[i].error, task.failures[i].title).value

\* =========================================================== concurrent runs
\* The Flask server handles requests in threads, so run_script can run several
\* times at once. What the runs share is the temporary directory of the
\* machine: fs.files maps the name of each ai_test_*.spec.js file to the run
\* whose script it holds, fs.dirs is the set of pw_screens_* directories.
MaxRuns == 2

RunIds == 1..MaxRuns

\* values of uuid.uuid4().hex[:6]: six hexadecimal digits drawn at random
Suffixes == {"a3f9c1", "7be204"}

\* names that tempfile.mkdtemp can give; it creates the directory exclusively
\* and retries on a name that exists
DirNames == 1..MaxRuns

\* stands for a file or directory that is not there
Gone == MaxRuns + 1

Run0 == [pc |-> "start", tmp_file |-> "", screenshot_dir |-> 0, wrote |-> FALSE,
         executed |-> 0, shots_to |-> 0]

ConcInit ==
  /\ pc = "idle"
  /\ script_content = MkScript(<<>>)
  /\ test_url = ""
  /\ page_info = NoPageInfo
  /\ Locals0
  /\ task = NoTask
  /\ ret = NoRet
  /\ fs = NoFs
  /\ runs = [r \in RunIds |-> Run0]

FileNames == {f.name : f \in fs.files}

HolderOf(name) == (CHOOSE f \in fs.files : f.name = name).holds

ConcFrame == UNCHANGED <<pc, inputs, locals, task, ret>>

\* lines 775-776: the file name is composed, not created; mkdtemp creates a
\* directory that did not exist
RunStart(r) ==
  /\ runs[r].pc = "start"
  /\ \E suffix \in Suffixes, d \in DirNames \ fs.dirs :
       /\ runs' = [runs EXCEPT ![r].pc = "write", ![r].tmp_file = suffix,
                               ![r].screenshot_dir = d]
       /\ fs' = [fs EXCEPT !.dirs = @ \cup {d}]
  /\ ConcFrame

\* lines 802-804: open(tmp_file, "w") creates the file or truncates the one
\* that is there, whoever wrote it
RunWrite(r) ==
  /\ runs[r].pc = "write"
  /\ \E how \in {"ok", "open_raises"} :
       IF how = "ok"
       THEN /\ fs' = [fs EXCEPT !.files = {f \in @ : f.name # runs[r].tmp_file}
                                          \cup {[name |-> runs[r].tmp_file, holds |-> r]}]
            /\ runs' = [runs EXCEPT ![r].pc = "run", ![r].wrote = TRUE]
       ELSE /\ runs' = [runs EXCEPT ![r].pc = "cleanup"]
            /\ UNCHANGED fs
  /\ ConcFrame

\* lines 806-812: the runner reads the file named tmp_file and its hook saves
\* the screenshots into PW_SCREENSHOT_DIR; executed is the run whose script
\* the runner found there, Gone when the file or directory is not there
RunExecute(r) ==
  /\ runs[r].pc = "run"
  /\ runs' = [runs EXCEPT ![r].pc = "cleanup",
                          ![r].executed = IF runs[r].tmp_file \in FileNames
                                          THEN HolderOf(runs[r].tmp_file) ELSE Gone,
                          ![r].shots_to = IF runs[r].screenshot_dir \in fs.dirs
                                          THEN runs[r].screenshot_dir ELSE Gone]
  /\ UNCHANGED fs
  /\ ConcFrame

\* lines 976-983: remove the file of that name and the directory if they exist
RunCleanup(r) ==
  /\ runs[r].pc = "cleanup"
  /\ fs' = [files |-> {f \in fs.files : f.name # runs[r].tmp_file},
            dirs |-> fs.dirs \ {runs[r].screenshot_dir}]
  /\ runs' = [runs EXCEPT ![r].pc = "done"]
  /\ ConcFrame

\* line 1014: a request that arrives after a run has ended starts a new run
NextRequest(r) ==
  /\ runs[r].pc = "done"
  /\ runs' = [runs EXCEPT ![r] = Run0]
  /\ UNCHANGED fs
  /\ ConcFrame

ConcNext ==
  \E r \in RunIds :
    \/ RunStart(r)
    \/ RunWrite(r)
    \/ RunExecute(r)
    \/ RunCleanup(r)
    \/ NextRequest(r)

ConcSpec == ConcInit /\ [][ConcNext]_vars

\* run r holds resources: it has created them and not yet cleaned up
Holding(r) == runs[r].pc \in {"write", "run", "cleanup"}

\* C14: two concurrent runs never share a temp script file or a capture
\* directory: a run that has written its script finds that very script in
\* its file until its own cleanup and executes no other, its directory stays
\* in place while it holds it, and no two runs hold the same directory.
C14_RunsNeverShare ==
  \A r \in RunIds :
    /\ (runs[r].wrote /\ runs[r].pc \in {"run", "cleanup"}) =>
         /\ runs[r].tmp_file \in FileNames
         /\ HolderOf(runs[r].tmp_file) = r
    /\ runs[r].executed \in {0, r}
    /\ Holding(r) => runs[r].screenshot_dir \in fs.dirs
    /\ \A q \in RunIds \ {r} :
         (Holding(r) /\ Holding(q)) => runs[r].screenshot_dir # runs[q].screenshot_dir

\* the title or the description of the recommendation contains the text
Mentions(rec, text) == IsSub(text, rec.title) \/ IsSub(text, rec.description)

\* the recommendation names the url, or a heading or button of the page that
\* is longer than three characters
Relevant(rec, url, page) ==
  \/ Mentions(rec, url)
  \/ /\ page.kind = "dict"
     /\ \E e \in LowerSet(page.headings) \cup LowerSet(page.buttons) :
          e # "" /\ CharLen(e) > 3 /\ Mentions(rec, e)

CollectionFailed == Logged("Screenshot collection error")

\* C22: when the screenshot collection fails at any point, also after images
\* were read, the failure is logged, the run goes on, and the screenshots of
\* the response are empty.
C22_FailedCollectionIsEmpty ==
  /\ (pc = "bugs" /\ CollectionFailed) => outcome = "running"
  /\ (Returned /\ CollectionFailed) => response.screenshots = <<>>

NoReportOnStdout == pc = "extract" /\ ExtractJson(proc.stdout).kind # "dict"

\* C24: when no result tree can be extracted from stdout (nothing, text that
\* is no JSON, a truncated report, a JSON value that is no report object), the
\* extraction step raises nothing: it logs the could-not-parse line, leaves
\* the result null and the failures empty, and goes on to the next step of the
\* normal path.
C24_ExtractionFailureNotFatal ==
  [][NoReportOnStdout =>
       /\ pc' = AfterExtract
       /\ result' = NoResult
       /\ failures' = <<>>
       /\ \E i \in DOMAIN logs' : logs'[i].tag = "Could not parse Playwright JSON output."]_vars

\* C25: every recommendation returned, validated generative output or
\* fallback, has a title of at most 255 characters, an impact among low,
\* medium, high and a category among the five allowed, however long the test
\* titles and the page title are.
C25_RecommendationSchema ==
  (ret.fn = "titles" /\ ~ret.val.raised) =>
    \A i \in DOMAIN ret.val.value :
      /\ TextLen(ret.val.value[i].title) <= MaxTitle
      /\ ret.val.value[i].impact \in valid_impacts
      /\ ret.val.value[i].category \in valid_categories

====
